---------------------------- MODULE Spec2Model ----------------------------
(***************************************************************************)
(* Model of system_monitor.cpp: the sampling loop of main(), the CPU       *)
(* estimator SnapshotProcesses() and the operator command handling.        *)
(*                                                                         *)
(* Representation choices                                                  *)
(*  - a 32-bit unsigned value (GetTickCount, DWORD parsed by stoul) is a   *)
(*    pair <<hi, lo>> of 16-bit halves, so that 0xFFFFFFF0 and the         *)
(*    wrap-around at 2^32 are the real ones;                               *)
(*  - a double is the exact rational <<num, den>> in lowest terms with     *)
(*    den > 0 (the values of the model are far from the rounding limits);  *)
(*  - a FILETIME is the 64-bit quantity its two DWORD halves denote;       *)
(*  - a std::string is a sequence of one-character strings;                *)
(*  - the process name is carried nowhere: no decision depends on it.      *)
(***************************************************************************)
EXTENDS Integers, Sequences, FiniteSets, TLC

(***************************************************************************)
(* Bounds of the model and values of the environment.                      *)
(***************************************************************************)
MaxCycles == 2

PIDs == {1, 2}
KernelTimes == {0, 1000000}
UserTimes == {500000}
Advances == {0, 26, 100, 1000}
\* main starts 16 ms before the tick counter wraps (0xFFFFFFF0), so that cycles
\* with a wrapped counter and cycles without both occur within MaxCycles
StartTicks == {<<65535, 65520>>}
HostCores == {0, 4}
Lines ==
  { <<>>,
    <<"q">>,
    <<" ", "S", " ">>,
    <<"x">>,
    <<"k">>,
    <<"k", " ", "1">>,
    <<"k", "x">>,
    <<"k", "1", "x">>,
    <<"2">> }

(***************************************************************************)
(* 32-bit unsigned arithmetic on <<hi, lo>> pairs.                         *)
(***************************************************************************)
Half == 65536

MAX_TICK == <<65535, 65535>>

Zero32 == <<0, 0>>

Add32(a, b) ==
  LET lo == a[2] + b[2]
      hi == a[1] + b[1] + (lo \div Half)
  IN <<hi % Half, lo % Half>>

Sub32(a, b) ==
  LET lo == a[2] - b[2]
      borrow == IF lo < 0 THEN 1 ELSE 0
  IN <<(a[1] - b[1] - borrow) % Half, lo % Half>>

Geq32(a, b) == a[1] > b[1] \/ (a[1] = b[1] /\ a[2] >= b[2])

\* (double)x of a 32-bit unsigned x
ToDouble32(x) == x[1] * Half + x[2]

(***************************************************************************)
(* Exact rationals for the double cpuPercent.                              *)
(***************************************************************************)
RECURSIVE Gcd(_, _)
Gcd(a, b) == IF b = 0 THEN a ELSE Gcd(b, a % b)

Abs(n) == IF n < 0 THEN 0 - n ELSE n

\* n / d; a zero divisor gives <<1, 0>>, <<-1, 0>> (infinities) or <<0, 0>> (NaN)
Rat(n, d) ==
  LET g == Gcd(Abs(n), Abs(d))
  IN IF d = 0 THEN <<(IF n > 0 THEN 1 ELSE IF n < 0 THEN -1 ELSE 0), 0>>
     ELSE IF d < 0 THEN <<(0 - n) \div g, (0 - d) \div g>>
     ELSE <<n \div g, d \div g>>

RatZero == <<0, 1>>

RatLt(x, y) == x[1] * y[2] < y[1] * x[2]

(***************************************************************************)
(* Lines 25-42: FileTimeToULL and GetProcTime100ns.  The two FILETIMEs are *)
(* 64-bit counts of 100 ns; the result is their sum.                       *)
(***************************************************************************)
GetProcTime100ns(ftKernel, ftUser) == ftKernel + ftUser

(***************************************************************************)
(* Line 74: the elapsed milliseconds of a cycle, as the code computes it.  *)
(***************************************************************************)
DeltaMs(pTick, cTick) ==
  IF Geq32(cTick, pTick)
    THEN Sub32(cTick, pTick)
    ELSE Add32(Sub32(MAX_TICK, pTick), cTick)

(***************************************************************************)
(* Lines 78-80: the core count, clamped up to 1.                           *)
(***************************************************************************)
NumCores(dwNumberOfProcessors) ==
  IF dwNumberOfProcessors < 1 THEN 1 ELSE dwNumberOfProcessors

(***************************************************************************)
(* Lines 96-101: the percentage of a process that has a previous counter.  *)
(***************************************************************************)
UsageUnguarded(t100ns, prev100ns, dMs, cores) ==
  Rat((t100ns - prev100ns) * 100, (ToDouble32(dMs) * 10000) * cores)

UsageAbsolute(t100ns, prev100ns, dMs, cores) ==
  Rat(Abs(t100ns - prev100ns) * 100, (ToDouble32(dMs) * 10000) * cores)

UsageSingleCore(t100ns, prev100ns, dMs, cores) ==
  LET deltaProc == IF t100ns > prev100ns THEN t100ns - prev100ns ELSE 0
  IN Rat(deltaProc * 100, ToDouble32(dMs) * 10000)

Usage(t100ns, prev100ns, dMs, cores) ==
  LET deltaProc == IF t100ns > prev100ns THEN t100ns - prev100ns ELSE 0
      wall100ns == ToDouble32(dMs) * 10000
      usage == Rat(deltaProc * 100, wall100ns * cores)
  IN IF RatLt(usage, RatZero) THEN RatZero ELSE usage

(***************************************************************************)
(* Lines 93-103: the percentage stored for a process whose counter was     *)
(* read: computed only with a previous entry and a positive elapsed time.  *)
(***************************************************************************)
CpuPercentDefaultPrev(pTimes, pid, t100ns, dMs, cores) ==
  IF dMs # Zero32
    THEN Usage(t100ns, IF pid \in DOMAIN pTimes THEN pTimes[pid] ELSE 0, dMs, cores)
    ELSE RatZero

CpuPercentAnyElapsed(pTimes, pid, t100ns, dMs, cores) ==
  IF pid \in DOMAIN pTimes
    THEN Usage(t100ns, pTimes[pid], dMs, cores)
    ELSE RatZero

CpuPercent(pTimes, pid, t100ns, dMs, cores) ==
  IF pid \in DOMAIN pTimes /\ dMs # Zero32
    THEN Usage(t100ns, pTimes[pid], dMs, cores)
    ELSE RatZero

(***************************************************************************)
(* Lines 174-183: std::sort.  The order of equivalent elements is          *)
(* unspecified, so the result is any permutation that the comparator       *)
(* accepts as sorted.                                                      *)
(***************************************************************************)
Perms(s) ==
  { [k \in 1..Len(s) |-> s[f[k]]] :
      f \in { g \in [1..Len(s) -> 1..Len(s)] :
                \A a, b \in 1..Len(s) : a # b => g[a] # g[b] } }

ByCPU(a, b) == RatLt(b.cpuPercent, a.cpuPercent)

ByPID(a, b) == a.pid < b.pid

StdSort(s, byCPU) ==
  { r \in Perms(s) :
      \A a, b \in 1..Len(r) :
        a < b => ~ (IF byCPU THEN ByCPU(r[b], r[a]) ELSE ByPID(r[b], r[a])) }

(***************************************************************************)
(* Lines 138-145: trim.                                                    *)
(***************************************************************************)
Blank == {" ", "\t", "\r", "\n"}

RECURSIVE DropFront(_)
DropFront(s) ==
  IF s = <<>> THEN s
  ELSE IF Head(s) \in Blank THEN DropFront(Tail(s)) ELSE s

RECURSIVE DropBack(_)
DropBack(s) ==
  IF s = <<>> THEN s
  ELSE IF s[Len(s)] \in Blank THEN DropBack(SubSeq(s, 1, Len(s) - 1)) ELSE s

trim(s) == DropBack(DropFront(s))

(***************************************************************************)
(* Lines 205-219: the target string of a terminate command.                *)
(***************************************************************************)
Digit == {"0", "1", "2", "3", "4", "5", "6", "7", "8", "9"}

DigitVal(c) ==
  CASE c = "0" -> 0 [] c = "1" -> 1 [] c = "2" -> 2 [] c = "3" -> 3
    [] c = "4" -> 4 [] c = "5" -> 5 [] c = "6" -> 6 [] c = "7" -> 7
    [] c = "8" -> 8 [] c = "9" -> 9

PidStr(c) ==
  IF c[1] \in {"k", "K"}
    THEN trim(Tail(c))
    ELSE IF \A k \in 1..Len(c) : c[k] \in Digit THEN c ELSE <<>>

(***************************************************************************)
(* Line 225: (DWORD)std::stoul(pidStr).  strtoul skips white space, takes  *)
(* an optional sign and the longest run of decimal digits; no digit at all *)
(* throws, a minus sign negates modulo 2^32.  The inputs of the model are  *)
(* too short to overflow.                                                  *)
(***************************************************************************)
RECURSIVE DigitRun(_)
DigitRun(s) ==
  IF s = <<>> \/ Head(s) \notin Digit THEN <<>>
  ELSE <<Head(s)>> \o DigitRun(Tail(s))

RECURSIVE DecVal(_)
DecVal(s) ==
  IF s = <<>> THEN 0
  ELSE DecVal(SubSeq(s, 1, Len(s) - 1)) * 10 + DigitVal(s[Len(s)])

Stoul(s) ==
  LET t == DropFront(s)
      signed == t # <<>> /\ Head(t) \in {"+", "-"}
      body == IF signed THEN Tail(t) ELSE t
      run == DigitRun(body)
      val == <<0, DecVal(run)>>
  IN IF run = <<>>
       THEN [ok |-> FALSE, val |-> Zero32]
       ELSE [ok |-> TRUE,
             val |-> IF signed /\ Head(t) = "-" THEN Sub32(Zero32, val) ELSE val]

(***************************************************************************)
(* Lines 121-136: PrintProcesses shows the first topN entries.             *)
(***************************************************************************)
topN == 25

PrintProcesses(ps) ==
  [k \in 1..(IF Len(ps) < topN THEN Len(ps) ELSE topN) |-> ps[k].pid]

(***************************************************************************)
(* State.                                                                  *)
(*  main:              pc, cycles, prevTimes, curTimes, prevTick, curTick, *)
(*                     sortByCPU, procs, cmd, pidStr, msg                  *)
(*  SnapshotProcesses: site (the call in progress), snap, list, i, h,      *)
(*                     deltaMs, dwNumberOfProcessors (of si), numCores     *)
(*  host:              clock (GetTickCount), killHandle                    *)
(*  display:           rows                                                *)
(*  history:           obs (what each read of the current call returned),  *)
(*                     enumOrder (the identifiers as enumerated),          *)
(*                     failedPrev (identifiers whose read failed in the    *)
(*                     previous call), olderTimes (the counters read two   *)
(*                     calls ago), tgtExists (the terminate target lives), *)
(*                     readPrev (the counters read by the previous call),  *)
(*                     emptyPrev (the previous call returned no entry)     *)
(***************************************************************************)
VARIABLES pc, cycles, prevTimes, curTimes, prevTick, curTick, sortByCPU,
          procs, cmd, pidStr, msg,
          site, snap, list, i, h, deltaMs, numCores, dwNumberOfProcessors,
          clock, killHandle, rows,
          obs, enumOrder, failedPrev, olderTimes, tgtExists, readPrev, emptyPrev

vars == <<pc, cycles, prevTimes, curTimes, prevTick, curTick, sortByCPU,
          procs, cmd, pidStr, msg,
          site, snap, list, i, h, deltaMs, numCores, dwNumberOfProcessors,
          clock, killHandle, rows,
          obs, enumOrder, failedPrev, olderTimes, tgtExists, readPrev, emptyPrev>>

mainVars == <<cycles, prevTimes, curTimes, prevTick, curTick, sortByCPU>>
cmdVars == <<cmd, pidStr, msg, killHandle, tgtExists>>
snapVars == <<site, snap, list, i, h, deltaMs, numCores, dwNumberOfProcessors>>
hostVars == <<clock>>
histVars == <<obs, enumOrder, failedPrev, olderTimes, readPrev, emptyPrev>>

EmptyMap == <<>>

NoObs == [p \in PIDs |-> [st |-> "none", t |-> 0]]

\* every enumeration of at least one process, each identifier at most once
Enumerations ==
  { s \in UNION { [1..n -> PIDs] : n \in 1..Cardinality(PIDs) } :
      \A a, b \in 1..Len(s) : a # b => s[a] # s[b] }

Put(m, k, v) == [x \in DOMAIN m \cup {k} |-> IF x = k THEN v ELSE m[x]]

\* the arguments of the call in progress: line 159 or line 168
ArgPrevTimes == IF site = "initial" THEN EmptyMap ELSE prevTimes
ArgCurTick == IF site = "initial" THEN prevTick ELSE curTick

(***************************************************************************)
(* Lines 147-154: the state of main before the initial snapshot.           *)
(***************************************************************************)
Init ==
  /\ pc = "initial"
  /\ cycles = 0
  /\ prevTimes = EmptyMap
  /\ curTimes = EmptyMap
  /\ clock \in StartTicks
  /\ prevTick = clock
  /\ curTick = Zero32
  /\ sortByCPU = TRUE
  /\ procs = <<>>
  /\ cmd = <<>>
  /\ pidStr = <<>>
  /\ msg = "none"
  /\ site = "none"
  /\ snap = FALSE
  /\ list = <<>>
  /\ i = 0
  /\ h = FALSE
  /\ deltaMs = Zero32
  /\ numCores = 1
  /\ dwNumberOfProcessors = 0
  /\ killHandle = FALSE
  /\ rows = <<>>
  /\ obs = NoObs
  /\ enumOrder = <<>>
  /\ failedPrev = {}
  /\ olderTimes = EmptyMap
  /\ readPrev = EmptyMap
  /\ emptyPrev = FALSE
  /\ tgtExists = FALSE

(***************************************************************************)
(* Lines 156-160: main calls SnapshotProcesses(tmp, prevTick, prevTick,    *)
(* prevTimes) with an empty tmp and drops the returned sequence.           *)
(***************************************************************************)
InitialSnapshot ==
  /\ pc = "initial"
  /\ site' = "initial"
  /\ pc' = "sp_create"
  /\ UNCHANGED <<mainVars, procs, cmdVars, snap, list, i, h, deltaMs, numCores,
                 dwNumberOfProcessors,
                 hostVars, rows, histVars>>

(***************************************************************************)
(* Lines 51-54: CreateToolhelp32Snapshot; a failure returns the empty list.*)
(***************************************************************************)
CreateSnapshot ==
  /\ pc = "sp_create"
  /\ list' = <<>>
  /\ obs' = NoObs
  /\ enumOrder' = <<>>
  /\ \E created \in BOOLEAN :
       /\ snap' = created
       /\ pc' = IF created THEN "sp_first" ELSE "sp_return"
  /\ UNCHANGED <<mainVars, procs, cmdVars, site, i, h, deltaMs, numCores,
                 dwNumberOfProcessors,
                 hostVars, rows, failedPrev, olderTimes,
                 readPrev, emptyPrev>>

(***************************************************************************)
(* Lines 56-62: Process32First fails: the snapshot handle is closed and    *)
(* the empty list returned.                                                *)
(***************************************************************************)
FirstFailsStopping ==
  /\ pc = "sp_first"
  /\ snap' = FALSE
  /\ pc' = "done"
  /\ UNCHANGED <<mainVars, procs, cmdVars, site, list, i, h, deltaMs, numCores,
                 dwNumberOfProcessors, hostVars, rows, histVars>>

FirstFails ==
  /\ pc = "sp_first"
  /\ snap' = FALSE
  /\ pc' = "sp_return"
  /\ UNCHANGED <<mainVars, procs, cmdVars, site, list, i, h, deltaMs, numCores,
                 dwNumberOfProcessors,
                 hostVars, rows, histVars>>

(***************************************************************************)
(* Lines 56-71: Process32First succeeds and the do-while loop appends one  *)
(* entry with cpuPercent 0 per enumerated process.                         *)
(***************************************************************************)
Enumerate ==
  /\ pc = "sp_first"
  /\ \E e \in Enumerations :
       /\ list' = [k \in 1..Len(e) |-> [pid |-> e[k], cpuPercent |-> RatZero]]
       /\ enumOrder' = e
  /\ pc' = "sp_close"
  /\ UNCHANGED <<mainVars, procs, cmdVars, site, snap, i, h, deltaMs, numCores,
                 dwNumberOfProcessors,
                 hostVars, rows, obs, failedPrev, olderTimes,
                 readPrev, emptyPrev>>

(***************************************************************************)
(* Lines 72-80: the snapshot handle is closed, the elapsed time and the    *)
(* core count are computed, and the loop of line 82 starts.                *)
(***************************************************************************)
CloseAndMeasure ==
  /\ pc = "sp_close"
  /\ snap' = FALSE
  /\ deltaMs' = DeltaMs(prevTick, ArgCurTick)
  /\ \E n \in HostCores :
       /\ dwNumberOfProcessors' = n
       /\ numCores' = NumCores(n)
  /\ i' = 1
  /\ pc' = "sp_open"
  /\ UNCHANGED <<mainVars, procs, cmdVars, site, list, h, hostVars, rows,
                 histVars>>

(***************************************************************************)
(* Lines 82-87: OpenProcess for list[i]; a failure skips the entry.        *)
(***************************************************************************)
OpenEntry ==
  /\ pc = "sp_open"
  /\ i <= Len(list)
  /\ \E opened \in BOOLEAN :
       IF opened
         THEN /\ h' = TRUE
              /\ pc' = "sp_time"
              /\ UNCHANGED <<i, obs>>
         ELSE /\ obs' = [obs EXCEPT ![list[i].pid] = [st |-> "open_failed", t |-> 0]]
              /\ i' = i + 1
              /\ UNCHANGED <<pc, h>>
  /\ UNCHANGED <<mainVars, procs, cmdVars, site, snap, list, deltaMs, numCores,
                 dwNumberOfProcessors,
                 hostVars, rows, enumOrder, failedPrev, olderTimes,
                 readPrev, emptyPrev>>

(***************************************************************************)
(* Lines 89-104, GetProcessTimes fails: nothing is recorded.               *)
(***************************************************************************)
TimeFailsCarrying ==
  /\ pc = "sp_time"
  /\ obs' = [obs EXCEPT ![list[i].pid] = [st |-> "time_failed", t |-> 0]]
  /\ IF site = "loop" /\ list[i].pid \in DOMAIN prevTimes
       THEN curTimes' = Put(curTimes, list[i].pid, prevTimes[list[i].pid])
       ELSE UNCHANGED curTimes
  /\ pc' = "sp_closeh"
  /\ UNCHANGED <<cycles, prevTimes, prevTick, curTick, sortByCPU, procs, cmdVars,
                 snapVars, hostVars, rows, enumOrder, failedPrev, olderTimes,
                 readPrev, emptyPrev>>

TimeFailsLeaking ==
  /\ pc = "sp_time"
  /\ obs' = [obs EXCEPT ![list[i].pid] = [st |-> "time_failed", t |-> 0]]
  /\ i' = i + 1
  /\ pc' = "sp_open"
  /\ UNCHANGED <<mainVars, procs, cmdVars, site, snap, list, h, deltaMs, numCores,
                 dwNumberOfProcessors, hostVars, rows,
                 enumOrder, failedPrev, olderTimes, readPrev, emptyPrev>>

TimeFails ==
  /\ pc = "sp_time"
  /\ obs' = [obs EXCEPT ![list[i].pid] = [st |-> "time_failed", t |-> 0]]
  /\ pc' = "sp_closeh"
  /\ UNCHANGED <<mainVars, procs, cmdVars, snapVars, hostVars, rows,
                 enumOrder, failedPrev, olderTimes,
                 readPrev, emptyPrev>>

(***************************************************************************)
(* Lines 89-104, GetProcessTimes succeeds: the counter goes into           *)
(* outNewTimes (prevTimes for the call of line 159, curTimes for the call  *)
(* of line 168) and the percentage into the entry.                         *)
(***************************************************************************)
TimeRead ==
  /\ pc = "sp_time"
  /\ \E ftKernel \in KernelTimes, ftUser \in UserTimes :
       LET t100ns == GetProcTime100ns(ftKernel, ftUser)
           pid == list[i].pid
       IN /\ IF site = "initial"
               THEN /\ prevTimes' = Put(prevTimes, pid, t100ns)
                    /\ UNCHANGED curTimes
               ELSE /\ curTimes' = Put(curTimes, pid, t100ns)
                    /\ UNCHANGED prevTimes
          /\ list' = [list EXCEPT ![i].cpuPercent =
                        CpuPercent(ArgPrevTimes, pid, t100ns, deltaMs, numCores)]
          /\ obs' = [obs EXCEPT ![pid] = [st |-> "read", t |-> t100ns]]
  /\ pc' = "sp_closeh"
  /\ UNCHANGED <<cycles, prevTick, curTick, sortByCPU, procs, cmdVars,
                 site, snap, i, h, deltaMs, numCores, dwNumberOfProcessors,
                 hostVars, rows,
                 enumOrder, failedPrev, olderTimes,
                 readPrev, emptyPrev>>

(***************************************************************************)
(* Line 105: CloseHandle(h), then the next entry.                          *)
(***************************************************************************)
CloseEntry ==
  /\ pc = "sp_closeh"
  /\ h' = FALSE
  /\ i' = i + 1
  /\ pc' = "sp_open"
  /\ UNCHANGED <<mainVars, procs, cmdVars, site, snap, list, deltaMs, numCores,
                 dwNumberOfProcessors,
                 hostVars, rows, histVars>>

(***************************************************************************)
(* Line 82 with i past the end: the loop is over.                          *)
(***************************************************************************)
LoopDone ==
  /\ pc = "sp_open"
  /\ i > Len(list)
  /\ pc' = "sp_return"
  /\ UNCHANGED <<mainVars, procs, cmdVars, snapVars, hostVars, rows, histVars>>

(***************************************************************************)
(* Lines 54, 61, 108: return list.  The call of line 159 drops the result, *)
(* the call of line 168 initialises procs with it.  The locals of the call *)
(* end with it.                                                            *)
(***************************************************************************)
ReturnSkippingSwap ==
  /\ pc = "sp_return"
  /\ IF site = "initial"
       THEN /\ pc' = "sleep"
            /\ procs' = <<>>
       ELSE /\ pc' = "sort"
            /\ procs' = list
  /\ site' = "none"
  /\ list' = <<>>
  /\ i' = 0
  /\ deltaMs' = Zero32
  /\ numCores' = 1
  /\ dwNumberOfProcessors' = 0
  /\ readPrev' = [p \in { q \in PIDs : obs[q].st = "read" } |-> obs[p].t]
  /\ emptyPrev' = (list = <<>>)
  /\ failedPrev' = { p \in PIDs : obs[p].st \in {"open_failed", "time_failed"} }
  /\ olderTimes' = EmptyMap
  /\ UNCHANGED <<mainVars, cmdVars, snap, h, hostVars, rows, obs, enumOrder>>

Return ==
  /\ pc = "sp_return"
  /\ IF site = "initial"
       THEN /\ pc' = "sleep"
            /\ procs' = <<>>
       ELSE /\ pc' = "swap"
            /\ procs' = list
  /\ site' = "none"
  /\ list' = <<>>
  /\ i' = 0
  /\ deltaMs' = Zero32
  /\ numCores' = 1
  /\ dwNumberOfProcessors' = 0
  /\ readPrev' = [p \in { q \in PIDs : obs[q].st = "read" } |-> obs[p].t]
  /\ emptyPrev' = (list = <<>>)
  /\ failedPrev' = { p \in PIDs : obs[p].st \in {"open_failed", "time_failed"} }
  /\ olderTimes' = EmptyMap
  /\ UNCHANGED <<mainVars, cmdVars, snap, h, hostVars, rows, obs, enumOrder>>

(***************************************************************************)
(* Line 164: Sleep.  The tick counter of the host moves on by the time     *)
(* that passed since it was last read, modulo 2^32.                        *)
(***************************************************************************)
Sleep ==
  /\ pc = "sleep"
  /\ cycles < MaxCycles
  /\ cycles' = cycles + 1
  /\ \E adv \in Advances : clock' = Add32(clock, <<0, adv>>)
  /\ pc' = "tick"
  /\ UNCHANGED <<prevTimes, curTimes, prevTick, curTick, sortByCPU, procs,
                 cmdVars, snapVars, rows, histVars>>

(***************************************************************************)
(* Line 165: curTick = GetTickCount().                                     *)
(***************************************************************************)
ReadTick ==
  /\ pc = "tick"
  /\ curTick' = clock
  /\ pc' = "clear"
  /\ UNCHANGED <<cycles, prevTimes, curTimes, prevTick, sortByCPU, procs,
                 cmdVars, snapVars, hostVars, rows, histVars>>

(***************************************************************************)
(* Lines 167-168: curTimes.clear() and the call                            *)
(* SnapshotProcesses(prevTimes, prevTick, curTick, curTimes).              *)
(***************************************************************************)
KeptTimes(m) == m

ClearedTimes(m) == EmptyMap

ClearAndCall ==
  /\ pc = "clear"
  /\ curTimes' = ClearedTimes(curTimes)
  /\ olderTimes' = curTimes
  /\ site' = "loop"
  /\ pc' = "sp_create"
  /\ UNCHANGED <<cycles, prevTimes, prevTick, curTick, sortByCPU, procs,
                 cmdVars, snap, list, i, h, deltaMs, numCores, dwNumberOfProcessors,
                 hostVars, rows,
                 obs, enumOrder, failedPrev, readPrev, emptyPrev>>

(***************************************************************************)
(* Lines 170-171: prevTimes.swap(curTimes); prevTick = curTick.            *)
(***************************************************************************)
SwapMerging ==
  /\ pc = "swap"
  /\ prevTimes' = [p \in DOMAIN prevTimes \cup DOMAIN curTimes |->
                     IF p \in DOMAIN curTimes THEN curTimes[p] ELSE prevTimes[p]]
  /\ curTimes' = prevTimes
  /\ prevTick' = curTick
  /\ pc' = "sort"
  /\ UNCHANGED <<cycles, curTick, sortByCPU, procs, cmdVars, snapVars,
                 hostVars, rows, histVars>>

SwapKeepingBaseline ==
  /\ pc = "swap"
  /\ prevTick' = curTick
  /\ pc' = "sort"
  /\ UNCHANGED <<cycles, prevTimes, curTimes, curTick, sortByCPU, procs, cmdVars,
                 snapVars, hostVars, rows, histVars>>

SwapUnlessEmpty ==
  /\ pc = "swap"
  /\ IF procs = <<>>
       THEN UNCHANGED <<prevTimes, curTimes, prevTick>>
       ELSE /\ prevTimes' = curTimes
            /\ curTimes' = prevTimes
            /\ prevTick' = curTick
  /\ pc' = "sort"
  /\ UNCHANGED <<cycles, curTick, sortByCPU, procs, cmdVars, snapVars,
                 hostVars, rows, histVars>>

Swap ==
  /\ pc = "swap"
  /\ prevTimes' = curTimes
  /\ curTimes' = prevTimes
  /\ prevTick' = curTick
  /\ pc' = "sort"
  /\ UNCHANGED <<cycles, curTick, sortByCPU, procs, cmdVars, snapVars,
                 hostVars, rows, histVars>>

(***************************************************************************)
(* Lines 174-183: std::sort by descending percentage or ascending id.      *)
(***************************************************************************)
Sort ==
  /\ pc = "sort"
  /\ procs' \in StdSort(procs, sortByCPU)
  /\ pc' = "render"
  /\ UNCHANGED <<mainVars, cmdVars, snapVars, hostVars, rows, histVars>>

(***************************************************************************)
(* Lines 185-190: the table and the prompt are written.  procs is not read *)
(* again in this iteration.                                                *)
(***************************************************************************)
Render ==
  /\ pc = "render"
  /\ rows' = PrintProcesses(procs)
  /\ procs' = <<>>
  /\ obs' = NoObs
  /\ enumOrder' = <<>>
  /\ pc' = "getline"
  /\ UNCHANGED <<mainVars, cmdVars, snapVars, hostVars, failedPrev, olderTimes,
                 readPrev, emptyPrev>>

(***************************************************************************)
(* Lines 191-193: one line is read and trimmed.                            *)
(***************************************************************************)
ReadCommand ==
  /\ pc = "getline"
  /\ \E line \in Lines : cmd' = trim(line)
  /\ rows' = <<>>
  /\ pc' = "dispatch"
  /\ UNCHANGED <<mainVars, procs, pidStr, msg, killHandle, tgtExists,
                 snapVars, hostVars, histVars>>

\* the end of an iteration of the while loop: its locals end with it
NextIteration ==
  /\ pc' = "sleep"
  /\ cmd' = <<>>
  /\ pidStr' = <<>>
  /\ msg' = "none"
  /\ tgtExists' = FALSE

(***************************************************************************)
(* Lines 194-195: the empty command.                                       *)
(***************************************************************************)
CmdEmptyQuitting ==
  /\ pc = "dispatch"
  /\ cmd = <<>>
  /\ pc' = "done"
  /\ UNCHANGED <<mainVars, procs, cmdVars, snapVars, hostVars, rows, histVars>>

CmdEmpty ==
  /\ pc = "dispatch"
  /\ cmd = <<>>
  /\ NextIteration
  /\ UNCHANGED <<mainVars, procs, killHandle, snapVars, hostVars, rows, histVars>>

(***************************************************************************)
(* Lines 196-197 and 250-251: quit.                                        *)
(***************************************************************************)
CmdQuit ==
  /\ pc = "dispatch"
  /\ cmd \in {<<"q">>, <<"Q">>}
  /\ pc' = "done"
  /\ msg' = "exiting"
  /\ UNCHANGED <<mainVars, procs, cmd, pidStr, killHandle, tgtExists,
                 snapVars, hostVars, rows, histVars>>

(***************************************************************************)
(* Lines 198-202: the sort toggle.                                         *)
(***************************************************************************)
CmdSort ==
  /\ pc = "dispatch"
  /\ cmd \in {<<"s">>, <<"S">>}
  /\ sortByCPU' = ~ sortByCPU
  /\ NextIteration
  /\ UNCHANGED <<cycles, prevTimes, curTimes, prevTick, curTick, procs,
                 killHandle, snapVars, hostVars, rows, histVars>>

(***************************************************************************)
(* Lines 204-221: any other command.  An empty target string falls through *)
(* to the end of the loop body without a message.                          *)
(***************************************************************************)
CmdTarget ==
  /\ pc = "dispatch"
  /\ cmd # <<>>
  /\ cmd \notin {<<"q">>, <<"Q">>, <<"s">>, <<"S">>}
  /\ IF PidStr(cmd) = <<>>
       THEN NextIteration
       ELSE /\ pidStr' = PidStr(cmd)
            /\ pc' = "kill"
            /\ UNCHANGED <<cmd, msg, tgtExists>>
  /\ UNCHANGED <<mainVars, procs, killHandle, snapVars, hostVars, rows, histVars>>

(***************************************************************************)
(* Lines 223-226 and 235-243: stoul throws, or OpenProcess fails.          *)
(***************************************************************************)
KillRejected ==
  /\ pc = "kill"
  /\ IF Stoul(pidStr).ok
       THEN /\ msg' = "cannot_open"
            /\ tgtExists' \in BOOLEAN
       ELSE /\ msg' = "invalid"
            /\ UNCHANGED tgtExists
  /\ pc' = "pause"
  /\ UNCHANGED <<mainVars, procs, cmd, pidStr, killHandle, snapVars, hostVars,
                 rows, histVars>>

(***************************************************************************)
(* Lines 223-227: OpenProcess(PROCESS_TERMINATE) returns a handle, which   *)
(* it does only for a process that exists.                                 *)
(***************************************************************************)
KillOpened ==
  /\ pc = "kill"
  /\ Stoul(pidStr).ok
  /\ tgtExists' = TRUE
  /\ killHandle' = TRUE
  /\ pc' = "terminate"
  /\ UNCHANGED <<mainVars, procs, cmd, pidStr, msg, snapVars, hostVars, rows,
                 histVars>>

(***************************************************************************)
(* Lines 229-232: TerminateProcess and its message.                        *)
(***************************************************************************)
TerminateForgetting ==
  /\ pc = "terminate"
  /\ msg' \in {"terminated", "failed"}
  /\ prevTimes' = [p \in DOMAIN prevTimes \ {Stoul(pidStr).val[2]} |-> prevTimes[p]]
  /\ pc' = "killclose"
  /\ UNCHANGED <<cycles, curTimes, prevTick, curTick, sortByCPU, procs, cmd,
                 pidStr, killHandle, tgtExists, snapVars, hostVars, rows, histVars>>

Terminate ==
  /\ pc = "terminate"
  /\ msg' \in {"terminated", "failed"}
  /\ pc' = "killclose"
  /\ UNCHANGED <<mainVars, procs, cmd, pidStr, killHandle, tgtExists,
                 snapVars, hostVars, rows, histVars>>

(***************************************************************************)
(* Line 233: CloseHandle(h).                                               *)
(***************************************************************************)
KillClose ==
  /\ pc = "killclose"
  /\ killHandle' = FALSE
  /\ pc' = "pause"
  /\ UNCHANGED <<mainVars, procs, cmd, pidStr, msg, tgtExists, snapVars,
                 hostVars, rows, histVars>>

(***************************************************************************)
(* Lines 244-247: "Press Enter to continue..." and the line read for it.   *)
(***************************************************************************)
Pause ==
  /\ pc = "pause"
  /\ NextIteration
  /\ UNCHANGED <<mainVars, procs, killHandle, snapVars, hostVars, rows, histVars>>

Next ==
  \/ InitialSnapshot
  \/ CreateSnapshot
  \/ FirstFails
  \/ Enumerate
  \/ CloseAndMeasure
  \/ OpenEntry
  \/ TimeFails
  \/ TimeRead
  \/ CloseEntry
  \/ LoopDone
  \/ Return
  \/ Sleep
  \/ ReadTick
  \/ ClearAndCall
  \/ Swap
  \/ Sort
  \/ Render
  \/ ReadCommand
  \/ CmdEmpty
  \/ CmdQuit
  \/ CmdSort
  \/ CmdTarget
  \/ KillRejected
  \/ KillOpened
  \/ Terminate
  \/ KillClose
  \/ Pause

Spec == Init /\ [][Next]_vars

TypeOK ==
  /\ pc \in {"initial", "sp_create", "sp_first", "sp_close", "sp_open",
              "sp_time", "sp_closeh", "sp_return", "sleep", "tick", "clear",
              "swap", "sort", "render", "getline", "dispatch", "kill",
              "terminate", "killclose", "pause", "done"}
  /\ cycles \in 0..MaxCycles
  /\ DOMAIN prevTimes \subseteq PIDs
  /\ DOMAIN curTimes \subseteq PIDs
  /\ sortByCPU \in BOOLEAN

(***************************************************************************)
(* Vocabulary of the properties.                                           *)
(***************************************************************************)
\* SnapshotProcesses is about to return: list is the returned sequence
Returned == pc = "sp_return"

\* the loop has replaced its rolling state (lines 170-171) and holds procs
AfterCycle == pc \in {"sort", "render"}

\* the map the call in progress writes to
OutNewTimes == IF site = "initial" THEN prevTimes ELSE curTimes

Range(s) == { s[k] : k \in 1..Len(s) }

PidsOf(s) == { s[k].pid : k \in 1..Len(s) }

PercentIn(s, p) == s[CHOOSE k \in 1..Len(s) : s[k].pid = p].cpuPercent

PosIn(s, x) == CHOOSE k \in 1..Len(s) : s[k] = x

WasRead(p) == obs[p].st = "read"

ReadFailed(p) == obs[p].st \in {"open_failed", "time_failed"}

CommandPcs == {"getline", "dispatch", "kill", "terminate", "killclose", "pause"}

(***************************************************************************)
(* C1.  Every percentage held in the sequence SnapshotProcesses builds and *)
(* in the sequence main keeps is a number >= 0: never negative, never an   *)
(* infinity or a NaN, whatever the counters, ticks and core count are.     *)
(***************************************************************************)
C1_PercentNonNegative ==
  \A s \in {list, procs} :
    \A k \in 1..Len(s) : s[k].cpuPercent[1] >= 0 /\ s[k].cpuPercent[2] > 0

\* a call returns one process with a positive percentage and one whose
\* counter went down
C1_Witness ==
  /\ Returned
  /\ site = "loop"
  /\ \E p, q \in DOMAIN prevTimes :
       /\ WasRead(p) /\ RatLt(RatZero, PercentIn(list, p))
       /\ WasRead(q) /\ obs[q].t < prevTimes[q]

(***************************************************************************)
(* C2.  The elapsed time a call uses is the difference of its two ticks    *)
(* modulo 2^32, so 26 for prevTick = 0xFFFFFFF0 and curTick = 0x0000000A.  *)
(***************************************************************************)
C2_ElapsedIsTickDifference ==
  pc \in {"sp_open", "sp_time", "sp_closeh"} =>
    deltaMs = Sub32(ArgCurTick, prevTick)

(***************************************************************************)
(* C3.  After every cycle the keys of the rolling map are identifiers      *)
(* enumerated in that cycle, and the sequence of the cycle has exactly the *)
(* enumerated identifiers: a process that disappeared is in neither.       *)
(***************************************************************************)
C3_NoStaleEntries ==
  AfterCycle =>
    /\ DOMAIN prevTimes \subseteq Range(enumOrder)
    /\ PidsOf(procs) = Range(enumOrder)
    /\ Len(procs) = Len(enumOrder)

\* a process of the previous map is missing from a non-empty enumeration
C3_Witness ==
  /\ pc = "sort"
  /\ enumOrder # <<>>
  /\ \E p \in DOMAIN curTimes : p \notin Range(enumOrder)

(***************************************************************************)
(* C4.  A process that is not in the previous map and whose counter is     *)
(* read gets the percentage 0, and the map written by the call holds the   *)
(* counter just read for it.                                               *)
(***************************************************************************)
C4_NewProcessIsZeroAndRecorded ==
  Returned =>
    \A p \in PIDs :
      (WasRead(p) /\ p \notin DOMAIN ArgPrevTimes) =>
        /\ PercentIn(list, p) = RatZero
        /\ p \in DOMAIN OutNewTimes
        /\ OutNewTimes[p] = obs[p].t

\* a new process with a positive counter, next to a known one, time having passed
C4_Witness ==
  /\ Returned
  /\ site = "loop"
  /\ deltaMs # Zero32
  /\ prevTimes # EmptyMap
  /\ \E p \in PIDs : WasRead(p) /\ p \notin DOMAIN prevTimes /\ obs[p].t > 0

(***************************************************************************)
(* C5.  When the elapsed time of a call is 0, every percentage it returns  *)
(* is 0, and the counters it read are in the map it wrote.                 *)
(***************************************************************************)
C5_ZeroElapsedGivesZero ==
  (Returned /\ list # <<>> /\ deltaMs = Zero32) =>
    /\ \A k \in 1..Len(list) : list[k].cpuPercent = RatZero
    /\ \A p \in PIDs :
         WasRead(p) => p \in DOMAIN OutNewTimes /\ OutNewTimes[p] = obs[p].t

\* no time passed in a cycle, and a counter of the previous map went up
C5_Witness ==
  /\ Returned
  /\ site = "loop"
  /\ deltaMs = Zero32
  /\ \E p \in DOMAIN prevTimes : WasRead(p) /\ obs[p].t > prevTimes[p]

(***************************************************************************)
(* C6.  A counter that is not above the one stored for the same identifier *)
(* gives the percentage 0, and replaces the stored one in the new map.     *)
(***************************************************************************)
C6_DecreasedCounterIsZero ==
  (Returned /\ site = "loop") =>
    \A p \in DOMAIN prevTimes :
      (WasRead(p) /\ obs[p].t <= prevTimes[p]) =>
        /\ PercentIn(list, p) = RatZero
        /\ p \in DOMAIN curTimes
        /\ curTimes[p] = obs[p].t

\* time passed and a counter is below the stored one
C6_Witness ==
  /\ Returned
  /\ site = "loop"
  /\ deltaMs # Zero32
  /\ \E p \in DOMAIN prevTimes : WasRead(p) /\ obs[p].t < prevTimes[p]

(***************************************************************************)
(* C7.  A process whose counter could not be read is in the sequence of    *)
(* the cycle with the percentage 0 and has no entry in the rolling map     *)
(* after the cycle.                                                        *)
(***************************************************************************)
C7_FailedReadNotRecorded ==
  AfterCycle =>
    \A p \in PIDs :
      ReadFailed(p) =>
        /\ p \in PidsOf(procs)
        /\ PercentIn(procs, p) = RatZero
        /\ p \notin DOMAIN prevTimes

\* the read fails for a process that had a counter in the previous map
C7_Witness ==
  /\ pc = "sort"
  /\ \E p \in DOMAIN curTimes : ReadFailed(p)

(***************************************************************************)
(* C8, as claimed.  A process read in cycle N-1, not readable in cycle N   *)
(* and read again in cycle N+1 with a higher counter, time having passed,  *)
(* is reported in cycle N+1 with a computed percentage, not with 0.        *)
(***************************************************************************)
C8_ComputedInNextCycle ==
  (Returned /\ site = "loop") =>
    \A p \in DOMAIN olderTimes :
      (p \in failedPrev /\ WasRead(p) /\ obs[p].t > olderTimes[p]
         /\ deltaMs # Zero32) =>
        PercentIn(list, p) # RatZero

(***************************************************************************)
(* C8, amended.  A process read in cycle N-1, not readable in cycle N and  *)
(* read again in cycle N+1 has no baseline in cycle N+1: it is reported    *)
(* with 0 there, and the counter read in cycle N+1 is recorded.            *)
(***************************************************************************)
C8_ZeroUntilBaselineIsBack ==
  (Returned /\ site = "loop") =>
    \A p \in DOMAIN olderTimes :
      (p \in failedPrev /\ WasRead(p)) =>
        /\ p \notin DOMAIN prevTimes
        /\ PercentIn(list, p) = RatZero
        /\ p \in DOMAIN curTimes
        /\ curTimes[p] = obs[p].t

\* read, then not readable, then read again with a higher counter
C8_Witness ==
  /\ Returned
  /\ site = "loop"
  /\ deltaMs # Zero32
  /\ \E p \in DOMAIN olderTimes :
       p \in failedPrev /\ WasRead(p) /\ obs[p].t > olderTimes[p]

(***************************************************************************)
(* C9.  In descending-CPU mode the sequence handed to rendering has        *)
(* non-increasing percentages, and entries with equal percentages are in   *)
(* their enumeration order.                                                *)
(***************************************************************************)
C9_StableDescending ==
  (pc = "render" /\ sortByCPU) =>
    \A a, b \in 1..Len(procs) :
      a < b =>
        /\ ~ RatLt(procs[a].cpuPercent, procs[b].cpuPercent)
        /\ procs[a].cpuPercent = procs[b].cpuPercent =>
             PosIn(enumOrder, procs[a].pid) < PosIn(enumOrder, procs[b].pid)

(***************************************************************************)
(* C10.  No step of command processing changes the rolling map or the      *)
(* rolling tick, and a terminate request whose target does not exist ends  *)
(* with the message of a failed open.                                      *)
(***************************************************************************)
C10_CommandsKeepRollingState ==
  [][ /\ pc \in CommandPcs => UNCHANGED <<prevTimes, prevTick>>
      /\ (pc = "kill" /\ Stoul(pidStr).ok /\ ~ tgtExists') => msg' = "cannot_open"
    ]_vars

\* a terminate request for a process that does not exist has been answered
\* while the rolling map holds counters
C10_Witness ==
  /\ pc = "pause"
  /\ msg = "cannot_open"
  /\ ~ tgtExists
  /\ prevTimes # EmptyMap

(***************************************************************************)
(* Vocabulary of the command properties.                                   *)
(***************************************************************************)
\* a non-empty string of decimal digits
ValidId(s) == s # <<>> /\ \A k \in 1..Len(s) : s[k] \in Digit

\* OpenProcess(PROCESS_TERMINATE) has been called for the command in hand
TerminationAttempted ==
  \/ pc \in {"terminate", "killclose"}
  \/ pc = "pause" /\ msg \in {"cannot_open", "terminated", "failed"}

KillPrefixed(c) == c # <<>> /\ c[1] \in {"k", "K"}

(***************************************************************************)
(* C11.  The termination capability is invoked only for a target that is a *)
(* non-empty string of decimal digits.                                     *)
(***************************************************************************)
C11_TerminateOnlyValidTarget ==
  TerminationAttempted => ValidId(pidStr)

(***************************************************************************)
(* C12.  A kill-prefixed command whose target is not a string of digits    *)
(* goes on to the terminate branch, and that branch answers an invalid     *)
(* target with the error message: none is dropped without a message.       *)
(***************************************************************************)
C12_InvalidTargetReported ==
  [][ /\ (pc = "dispatch" /\ KillPrefixed(cmd) /\ ~ ValidId(trim(Tail(cmd))))
           => pc' = "kill"
      /\ (pc = "kill" /\ ~ ValidId(pidStr)) => msg' = "invalid"
    ]_vars

(***************************************************************************)
(* C13.  With a previous entry and a positive elapsed time, the percentage *)
(* is delta / (elapsedMs * 10000 * coreCount) * 100, the core count being  *)
(* the reported one raised to at least 1.  Stated without division: the    *)
(* numerator and the denominator of the percentage, multiplied by the same *)
(* factor, are delta * 100 and elapsedMs * 10000 * coreCount.  A counter   *)
(* going from 500,000 to 1,500,000 in 1000 ms on 4 cores gives 5/2.        *)
(***************************************************************************)
C13_PercentageFormula ==
  (Returned /\ site = "loop" /\ list # <<>>) =>
    /\ numCores >= 1
    /\ dwNumberOfProcessors >= 1 => numCores = dwNumberOfProcessors
    /\ \A p \in DOMAIN prevTimes :
         (WasRead(p) /\ deltaMs # Zero32) =>
           LET delta == IF obs[p].t > prevTimes[p] THEN obs[p].t - prevTimes[p] ELSE 0
               den == (deltaMs[1] * Half + deltaMs[2]) * 10000 * numCores
               pct == PercentIn(list, p)
               factor == den \div pct[2]
           IN /\ pct[2] * factor = den
              /\ pct[1] * factor = delta * 100
              /\ (prevTimes[p] = 500000 /\ obs[p].t = 1500000
                    /\ deltaMs = <<0, 1000>> /\ dwNumberOfProcessors = 4)
                   => pct = <<5, 2>>

\* the example of the claim
C13_Witness ==
  /\ Returned
  /\ site = "loop"
  /\ deltaMs = <<0, 1000>>
  /\ dwNumberOfProcessors = 4
  /\ \E p \in DOMAIN prevTimes :
       WasRead(p) /\ prevTimes[p] = 500000 /\ obs[p].t = 1500000

(***************************************************************************)
(* C14.  When no counter goes down and no counter advances by more than    *)
(* the elapsed time (the difference of the two ticks modulo 2^32) times    *)
(* the core count, every percentage of the cycle is at most 100, also when *)
(* the tick counter wrapped.  Stated for the first cycle, before which no  *)
(* cycle can have broken the assumption.                                   *)
(***************************************************************************)
C14_AtMostHundredInSteadyState ==
  (Returned /\ site = "loop" /\ list # <<>> /\ cycles = 1
     /\ \A p \in DOMAIN prevTimes :
          WasRead(p) =>
            /\ obs[p].t >= prevTimes[p]
            /\ obs[p].t - prevTimes[p]
                 <= ToDouble32(Sub32(curTick, prevTick)) * 10000 * numCores)
  => \A k \in 1..Len(list) : ~ RatLt(<<100, 1>>, list[k].cpuPercent)

(***************************************************************************)
(* C15.  The loop ends exactly on a quit command: the step that handles a  *)
(* command ends the loop if and only if the trimmed command is q or Q; any *)
(* other command leads, directly or through the termination steps and the  *)
(* pause, to the Sleep of the next iteration; and after the loop has       *)
(* ended no step is taken at all, so no sampling and no termination call.  *)
(***************************************************************************)
QuitCommand == {<<"q">>, <<"Q">>}

C15_EndsExactlyOnQuit ==
  [][ /\ pc' = "done" => (pc = "dispatch" /\ cmd \in QuitCommand)
      /\ (pc = "dispatch" /\ cmd \in QuitCommand) => pc' = "done"
      /\ (pc = "dispatch" /\ cmd \notin QuitCommand) => pc' \in {"sleep", "kill"}
      /\ pc = "kill" => pc' \in {"terminate", "pause"}
      /\ pc = "terminate" => pc' = "killclose"
      /\ pc = "killclose" => pc' = "pause"
      /\ pc = "pause" => pc' = "sleep"
      /\ pc # "done" ]_vars

\* the loop has ended after at least one cycle
C15_Witness == pc = "done" /\ cmd \in QuitCommand /\ cycles >= 1

(***************************************************************************)
(* C16.  During the call of a loop cycle the map of previous counters is   *)
(* exactly what the call before it (the previous cycle, or the initial     *)
(* snapshot for the first cycle) read successfully.  A percentage is       *)
(* computed from the counter that call read for the same identifier, and   *)
(* is 0 when it read none, whatever older calls have read.                 *)
(***************************************************************************)
C16_BaselineIsPreviousCycle ==
  site = "loop" =>
    /\ prevTimes = readPrev
    /\ \A k \in 1..Len(list) :
         LET p == list[k].pid
         IN  WasRead(p) =>
               IF p \in DOMAIN readPrev /\ deltaMs # Zero32
                 THEN list[k].cpuPercent = Usage(obs[p].t, readPrev[p], deltaMs, numCores)
                 ELSE list[k].cpuPercent = RatZero

\* a call returns a percentage computed for one process whose counter of
\* two calls ago differs from the one of the last call, and a process read
\* two calls ago but not in the last call
C16_Witness ==
  /\ Returned
  /\ site = "loop"
  /\ \E p \in DOMAIN olderTimes \cap DOMAIN readPrev :
       /\ olderTimes[p] # readPrev[p]
       /\ WasRead(p)
       /\ PercentIn(list, p) # RatZero
  /\ \E q \in DOMAIN olderTimes \ DOMAIN readPrev : WasRead(q)

(***************************************************************************)
(* C17.  The steps of a cycle follow one another in the order Sleep, read  *)
(* the tick, enumerate and estimate, replace the rolling state, sort,      *)
(* render, read the command.  The command is read only after the render,   *)
(* the command and its target change only in the command steps, and in     *)
(* every command step, a termination call included, no call of             *)
(* SnapshotProcesses is in progress and the rolling state is already that  *)
(* of this cycle: the tick read in it and the counters read in it.         *)
(***************************************************************************)
SnapshotPcs == {"sp_create", "sp_first", "sp_close", "sp_open", "sp_time",
                "sp_closeh", "sp_return"}

C17_CycleOrder ==
  [][ /\ pc = "sleep" => pc' = "tick"
      /\ pc = "tick" => (pc' = "clear" /\ curTick' = clock)
      /\ pc = "clear" => (pc' = "sp_create" /\ site' = "loop")
      /\ (pc \in SnapshotPcs /\ site = "loop") => pc' \in SnapshotPcs \cup {"swap"}
      /\ pc' = "swap" => (pc = "sp_return" /\ site = "loop")
      /\ pc = "swap" => (pc' = "sort" /\ prevTimes' = curTimes /\ prevTick' = curTick)
      /\ pc = "sort" => pc' = "render"
      /\ pc = "render" => pc' = "getline"
      /\ pc' = "getline" => pc = "render"
      /\ pc' \in CommandPcs => pc \in CommandPcs \cup {"render"}
      /\ cmdVars' # cmdVars => pc \in CommandPcs
      /\ pc \in CommandPcs =>
           /\ site = "none"
           /\ prevTick = curTick
           /\ prevTimes = readPrev ]_vars

\* a termination call in the second cycle, with the counters of that cycle
\* in the rolling map
C17_Witness ==
  /\ pc = "terminate"
  /\ cycles = 2
  /\ prevTimes = readPrev
  /\ prevTimes # EmptyMap

(***************************************************************************)
(* C18.  Handles live within one operation.  The handle of a counter read  *)
(* is open only between OpenProcess and the CloseHandle of the same entry, *)
(* the handle of a termination only between OpenProcess and its            *)
(* CloseHandle, the snapshot handle only inside the enumeration; the two   *)
(* per-process handles are never open together, and none of the three is   *)
(* open when the next entry is opened, when SnapshotProcesses returns,     *)
(* when a command is read or awaited, or when the program sleeps or ends.  *)
(***************************************************************************)
C18_HandlesScoped ==
  /\ h => pc \in {"sp_time", "sp_closeh"}
  /\ killHandle => pc \in {"terminate", "killclose"}
  /\ snap => pc \in {"sp_first", "sp_close"}
  /\ ~ (h /\ killHandle)
  /\ pc \in {"sp_open", "sp_return", "sleep", "getline", "dispatch", "kill",
              "pause", "done"} => (~ h /\ ~ killHandle /\ ~ snap)

\* the next entry is about to be opened after a failed counter read
C18_Witness ==
  /\ pc = "sp_open"
  /\ i > 1
  /\ i <= Len(list)
  /\ obs[list[i - 1].pid].st = "time_failed"
  /\ ~ h

(***************************************************************************)
(* C19.  A failed enumeration does not stop the program.  When the         *)
(* snapshot cannot be created or its first entry cannot be fetched,        *)
(* SnapshotProcesses returns the empty sequence; the loop takes it as the  *)
(* cycle's sequence, renders no row, reads a command, and unless the       *)
(* command is a quit goes on to the Sleep of the next cycle.               *)
(***************************************************************************)
C19_EnumerationFailureIsEmptyCycle ==
  [][ /\ (pc = "sp_create" /\ ~ snap') => (pc' = "sp_return" /\ list' = <<>>)
      /\ (pc = "sp_first" /\ enumOrder' = <<>>) => (pc' = "sp_return" /\ list' = <<>>)
      /\ (pc = "sp_return" /\ site = "loop" /\ enumOrder = <<>>) =>
           (pc' = "swap" /\ procs' = <<>> /\ emptyPrev')
      /\ (emptyPrev /\ pc = "swap") => (pc' = "sort" /\ procs' = <<>>)
      /\ (emptyPrev /\ pc = "sort") => (pc' = "render" /\ procs' = <<>>)
      /\ (emptyPrev /\ pc = "render") => (pc' = "getline" /\ rows' = <<>>)
      /\ (emptyPrev /\ pc = "getline") => pc' = "dispatch"
      /\ (emptyPrev /\ pc = "dispatch" /\ cmd \notin QuitCommand) =>
           pc' \in {"sleep", "kill"}
      /\ (emptyPrev /\ pc \in {"kill", "terminate", "killclose", "pause"}) =>
           pc' \in {"terminate", "killclose", "pause", "sleep"}
      /\ pc' = "done" => pc = "dispatch" ]_vars

\* the second cycle has begun after a first cycle whose enumeration failed
C19_Witness == pc = "tick" /\ cycles = 2 /\ emptyPrev

(***************************************************************************)
(* C20.  A cycle whose enumeration failed still replaces the rolling       *)
(* state: after it the rolling map is empty and the rolling tick is the    *)
(* tick read in that cycle.  In the call of the following cycle the map of *)
(* previous counters is therefore empty and every percentage is 0, however *)
(* far the counters have advanced.                                         *)
(***************************************************************************)
C20_ZeroAfterEnumerationFailure ==
  /\ (emptyPrev /\ pc \in {"sort", "render"} \cup CommandPcs) =>
       (prevTimes = EmptyMap /\ prevTick = curTick)
  /\ (emptyPrev /\ site = "loop") =>
       /\ prevTimes = EmptyMap
       /\ \A k \in 1..Len(list) : list[k].cpuPercent = RatZero

\* the second cycle, after a first cycle whose enumeration failed, reads a
\* counter that has advanced since the initial snapshot over a positive
\* elapsed time
C20_Witness ==
  /\ Returned
  /\ site = "loop"
  /\ cycles = 2
  /\ emptyPrev
  /\ deltaMs # Zero32
  /\ \E p \in DOMAIN olderTimes : WasRead(p) /\ obs[p].t > olderTimes[p]

====
